---- MODULE Spec2Model ----
(***************************************************************************)
(* Project Lakechain middlewares: the queue-consume / upload / publish /   *)
(* acknowledge protocol of the processors, the model-pull file lock of    *)
(* the Ollama workers, and the recursive metadata merge.                   *)
(*                                                                         *)
(* The specifications of the module:                                       *)
(*   Spec         the processors consuming an SQS queue (container         *)
(*                workers, the asynchronous Ollama embedding worker,       *)
(*                Lambda batch processors with one output and with a       *)
(*                fan-out);                                                *)
(*   SpecPull     processes pulling an ollama model under a file lock;     *)
(*   SpecMerge    merge(dct, merge_dct) applied to bounded nested dicts;   *)
(*   SpecPdf      extract_pages and extract_document of the PDF converter; *)
(*   SpecChunk    chunk_text;                                              *)
(*   SpecKeywords get_keywords;                                            *)
(*   SpecLanguage get_language_code;                                       *)
(*   SpecEnvelope the call stack and the metadata of the events of the     *)
(*                Laplacian, video, tiling and PDF processors;             *)
(*   SpecSize     data.document.size of the documents written.             *)
(***************************************************************************)
EXTENDS Integers, Sequences, FiniteSets, TLC

(***************************************************************************)
(* Bounds of the model.                                                    *)
(***************************************************************************)
NumMessages == 2
NumProcesses == 3
NumModels == 2
MaxAtom == 2
MaxPages == 2
MaxCount == 1
MaxSentences == 3
MaxSentenceLen == 2
MaxByteLength == 3
MaxTopN == 2
MaxKeywords == 4
MaxScore == 2
MaxCodeLen == 3
MaxPayloadLen == 4
MaxObjectHeader == 2
MaxDeliveries == 3
MaxOutputs == 2
MaxBatch == 2

\* MaxNumberOfMessages=1 in sqs_consume_queue.
MaxNumberOfMessages == 1

Messages == 1..NumMessages

\* The processors: a container worker polling with sqs_consume_queue, the
\* asynchronous Ollama embedding worker, a Lambda with one output event per
\* record, and a Lambda with one output event per page / chunk of the record.
ProcKinds == {"container", "ollama", "lambda", "lambda_fanout"}

VARIABLES
  proc,         \* which processor runs
  topic,        \* whether SNS_TARGET_TOPIC is configured
  queue,        \* messages in the input queue (not deleted)
  visible,      \* messages of the queue a receive may return
  deliveries,   \* deliveries[m]: how often m was received
  invocations,  \* invocations[m]: how often the handler was called for m
  loop,         \* position of the consume loop
  lastReceive,  \* what the last receive_message returned
  batch,        \* the messages of the batch being handled
  task,         \* task[m]: the handler's progress on m in its latest delivery
  reported,     \* Lambda: the batch item failures of the last invocation
  lastBatch,    \* Lambda: the records of the last invocation
  batchError,   \* Lambda: the last invocation raised (entire batch failed)
  wants,        \* pull: wants[p], the ollama model of process p
  ppc,          \* pull: ppc[p], the position of process p
  lock,         \* pull: lock[f], the process holding the lock file f, or 0
  cached,       \* pull: the models present in the shared cache directory
  entered,      \* pull: the processes that went into ollama.pull
  fn,           \* merge: the function that is called
  mpc,          \* merge: "call" before the function ran, "return" after
  dct,          \* merge: the dict merged into (the metadata of the event)
  merge_dct,    \* merge: the dict merged into dct
  computed,     \* merge: the value the processor computed, 0 for none
  result,       \* merge: dct after the call
  TASK,         \* pdf: segmentationType, outputType, layoutExtraction
  pdf,          \* pdf: the document: its pages, the tables and images of each
  received,     \* pdf: data.metadata of the event as it was received
  callStack,    \* pdf: data.callStack of the event as it was received
  event,        \* pdf: data.metadata of `event` in the handler
  page_idx,     \* pdf: the loop index of extract_pages
  published,    \* pdf: the events published, in order
  pdfpc,        \* pdf: "call", "returned", "KeyError" or "raised"
  sentences,    \* chunk_text: the sentences of the text, as code points
  max_byte_length, \* chunk_text: the maximum byte length asked for
  chunks,       \* chunk_text: the chunks returned
  cpc,          \* chunk_text: "call" before it ran, "return" after
  top_n,        \* get_keywords: the number of keywords asked for
  keywords,     \* get_keywords: the (keyword, score) pairs extracted so far
  kresult,      \* get_keywords: the list returned
  kpc,          \* get_keywords: "extract" in the loop, "return" after
  input_code,   \* get_language_code: the code of the feed, its characters
  language,     \* get_language_code: the code returned
  lpc,          \* get_language_code: "call" before it ran, "return" after
  processor,    \* envelope: the processor that handles the record
  target_topic, \* envelope: whether SNS_TARGET_TOPIC is set
  rcvd,         \* envelope: callStack and metadata of the event received
  ev,           \* envelope: callStack and metadata of `event` in the handler
  n_chunks,     \* envelope: the number of chunks of the text
  order,        \* envelope: the index of the next chunk
  returned,     \* envelope: the events publish_event returned, in order
  epc,          \* envelope: "call" in the handler, "returned" after
  writer,       \* size: the processor that writes a document
  payload,      \* size: the payload it produced, bytes or code points
  document,     \* size: data.document.size, and the bytes that were uploaded
  spc           \* size: "call" before the processor ran, "return" after

msgVars == <<proc, topic, queue, visible, deliveries, invocations, loop,
             lastReceive, batch, task, reported, lastBatch, batchError>>

pullVars == <<wants, ppc, lock, cached, entered>>

mergeVars == <<fn, mpc, dct, merge_dct, computed, result>>

pdfVars ==
  <<TASK, pdf, received, callStack, event, page_idx, published, pdfpc>>

chunkVars == <<sentences, max_byte_length, chunks, cpc>>

keywordVars == <<top_n, keywords, kresult, kpc>>

languageVars == <<input_code, language, lpc>>

envelopeVars ==
  <<processor, target_topic, rcvd, ev, n_chunks, order, returned, epc>>

sizeVars == <<writer, payload, document, spc>>

vars == <<msgVars, pullVars, mergeVars, pdfVars, chunkVars, keywordVars, languageVars, envelopeVars, sizeVars>>

IsContainer == proc \in {"container", "ollama"}
IsLambda == proc \in {"lambda", "lambda_fanout"}

\* on_message_batch awaits asyncio.gather over the messages: the Ollama
\* worker's handlers interleave; every other processor handles the
\* messages of a batch one after the other.
IsConcurrent == proc = "ollama"

IdleTask ==
  [step |-> "idle", k |-> 0, nout |-> 0, uploaded |-> {}, published |-> {},
   sent |-> {}, raisedAt |-> "none", caughtBy |-> "none",
   deleteCalled |-> FALSE]

\* The fields of a task: step, the handler's position; nout, the number of
\* output documents of the message and k, the one being produced; uploaded,
\* the outputs put_object returned for; published, the outputs
\* publish_event returned for and sent, those it sent to the topic;
\* raisedAt, the step that raised and caughtBy, who caught it;
\* deleteCalled, whether delete_message was called.

Processes == 1..NumProcesses
Models == 1..NumModels

\* The lock files there may be in the cache directory, by name.
LockFiles == ({"model"} \X Models) \cup ({"process"} \X Processes)

\* The pull machinery at rest.
PullIdle ==
  /\ wants = [p \in Processes |-> 1]
  /\ ppc = [p \in Processes |-> "start"]
  /\ lock = [f \in LockFiles |-> 0]
  /\ cached = {}
  /\ entered = {}

\* A Python value: a dict, with its items, or a value that is no dict.
NoItems == [k \in {} |-> 0]
Atom(i) == [d |-> FALSE, a |-> i, items |-> NoItems]
Dict(f) == [d |-> TRUE, a |-> 0, items |-> f]
EmptyDict == Dict(NoItems)

\* The merge functions at rest.
MergeIdle ==
  /\ fn = "none"
  /\ mpc = "return"
  /\ dct = EmptyDict
  /\ merge_dct = EmptyDict
  /\ computed = 0
  /\ result = EmptyDict

\* The PDF converter at rest.
PdfIdle ==
  /\ TASK = [segmentationType |-> "page", outputType |-> "text",
             layoutExtraction |-> FALSE]
  /\ pdf = [pages |-> 0, tables |-> <<>>, images |-> <<>>]
  /\ received = EmptyDict
  /\ callStack = <<>>
  /\ event = EmptyDict
  /\ page_idx = 0
  /\ published = <<>>
  /\ pdfpc = "returned"

\* chunk_text at rest.
ChunkIdle ==
  /\ sentences = <<>>
  /\ max_byte_length = 0
  /\ chunks = <<>>
  /\ cpc = "return"

\* get_keywords at rest.
KeywordIdle ==
  /\ top_n = 1
  /\ keywords = <<>>
  /\ kresult = <<>>
  /\ kpc = "return"

\* get_language_code at rest.
LanguageIdle ==
  /\ input_code = <<>>
  /\ language = <<>>
  /\ lpc = "return"

\* The record handlers at rest.
EnvelopeIdle ==
  /\ processor = "laplacian"
  /\ target_topic = TRUE
  /\ rcvd = [callStack |-> <<>>, metadata |-> EmptyDict]
  /\ ev = [callStack |-> <<>>, metadata |-> EmptyDict]
  /\ n_chunks = 0
  /\ order = 0
  /\ returned = <<>>
  /\ epc = "returned"

\* The processors that write a document at rest.
SizeIdle ==
  /\ writer = "canny"
  /\ payload = <<>>
  /\ document = [size |-> 0, uploaded |-> 0]
  /\ spc = "return"

Init ==
  /\ SizeIdle
  /\ EnvelopeIdle
  /\ LanguageIdle
  /\ KeywordIdle
  /\ ChunkIdle
  /\ PdfIdle
  /\ PullIdle
  /\ MergeIdle
  /\ proc \in ProcKinds
  /\ topic \in BOOLEAN
  /\ queue = Messages
  /\ visible = Messages
  /\ deliveries = [m \in Messages |-> 0]
  /\ invocations = [m \in Messages |-> 0]
  /\ loop = "poll"
  /\ lastReceive = "none"
  /\ batch = {}
  /\ task = [m \in Messages |-> IdleTask]
  /\ reported = {}
  /\ lastBatch = {}
  /\ batchError = FALSE

\* The number of messages one receive asks for.
BatchLimit ==
  IF proc = "container" THEN MaxNumberOfMessages ELSE MaxBatch

RECURSIVE Sum(_, _)
Sum(f, S) ==
  IF S = {} THEN 0
  ELSE LET x == CHOOSE y \in S : TRUE IN f[x] + Sum(f, S \ {x})

(***************************************************************************)
(* The queue.                                                              *)
(***************************************************************************)

\* The number of deliveries the queue has made so far.
Delivered == Sum(deliveries, Messages)

\* The batches a receive may return: up to BatchLimit visible messages.
Receivable ==
  {S \in SUBSET visible : S # {} /\ Cardinality(S) <= BatchLimit}

\* receive_message returned messages: they become invisible to other
\* receives and the handlers of the batch are to be run.
receive_message ==
  /\ loop = "poll"
  /\ \E S \in Receivable :
       /\ Delivered + Cardinality(S) <= MaxDeliveries
       /\ batch' = S
       /\ visible' = visible \ S
       /\ deliveries' = [m \in Messages |->
                           IF m \in S THEN deliveries[m] + 1 ELSE deliveries[m]]
       /\ task' = [m \in Messages |->
                     IF m \in S THEN [IdleTask EXCEPT !.step = "received"]
                     ELSE task[m]]
  /\ loop' = "batch"
  /\ lastReceive' = "some"
  /\ UNCHANGED <<proc, topic, queue, invocations, reported, lastBatch,
                 batchError>>

\* receive_message returned no message within WaitTimeSeconds: the consume
\* loop breaks and the container stops. (A Lambda is simply not invoked.)
receive_nothing ==
  /\ loop = "poll"
  /\ IsContainer
  /\ loop' = "stopped"
  /\ lastReceive' = "empty"
  /\ UNCHANGED <<proc, topic, queue, visible, deliveries, invocations, batch,
                 task, reported, lastBatch, batchError>>

\* receive_message raised: the call is outside every try block of the
\* consume loop, so the exception leaves the loop.
receive_raises ==
  /\ loop = "poll"
  /\ IsContainer
  /\ loop' = "crashed_receive"
  /\ lastReceive' = "error"
  /\ UNCHANGED <<proc, topic, queue, visible, deliveries, invocations, batch,
                 task, reported, lastBatch, batchError>>

\* The visibility timeout of a received message that was not deleted
\* expires: the queue may deliver it again. When it expires matters to the
\* next receive only, so it is taken between two batches.
visibility_timeout(m) ==
  /\ m \in queue \ visible
  /\ loop = "poll"
  /\ Delivered < MaxDeliveries
  /\ visible' = visible \cup {m}
  /\ UNCHANGED <<proc, topic, queue, deliveries, invocations, loop,
                 lastReceive, batch, task, reported, lastBatch, batchError>>

(***************************************************************************)
(* The handler of one message: on_message in the containers,              *)
(* record_handler in the Lambdas.                                          *)
(***************************************************************************)

\* The steps in another order: the event is published before the upload.
StepAfterSwapped(s) ==
  CASE s = "process_document" -> "publish_event"
    [] s = "publish_event" -> "put_object"
    [] s = "put_object" -> "next"

\* The order of the steps taken for one output document: the document is
\* produced, uploaded with put_object, and then published.
StepAfter(s) ==
  CASE s = "process_document" -> "put_object"
    [] s = "put_object" -> "publish_event"
    [] s = "publish_event" -> "next"

\* A try block that ends before delete_message.
on_message_except_narrow(where) == where # "delete_message"

\* on_message wraps its whole body, delete_message included, in
\* try / except Exception.
on_message_except(where) == TRUE

\* Who catches an exception raised at step `where` of the handler.
CaughtBy(where) ==
  IF IsLambda THEN "BatchProcessor"
  ELSE IF on_message_except(where) THEN "on_message"
  ELSE IF proc = "container" THEN "sqs_consume_queue"
  ELSE "nobody"

\* A handler that deletes the message in a finally clause.
AfterRaiseDelete == "delete_message"

\* What the handler of a message does once its exception is caught: the
\* except clause logs the traceback and the handler returns.
AfterRaise == "done"

\* The step `where` of the handler of m raised, the task being t.
Raise(m, t, where) ==
  /\ task' = [task EXCEPT ![m] = [t EXCEPT !.step = AfterRaise,
                                           !.raisedAt = where,
                                           !.caughtBy = CaughtBy(where)]]
  /\ loop' = IF CaughtBy(where) = "nobody" THEN "crashed_handler" ELSE loop

\* The step that follows the last output of the message: the containers
\* delete the message themselves, a record_handler returns.
EndStep == IF IsContainer THEN "delete_message" ELSE "done"

\* The handler may be started for m: the messages of a batch are taken in
\* order, one at a time, except under asyncio.gather.
MayStart(m) ==
  \/ IsConcurrent
  \/ /\ \A o \in batch \ {m} : task[o].step \in {"received", "done"}
     /\ \A o \in batch : task[o].step = "received" => m <= o

\* message_processor(message) / record_handler(record) is called.
message_processor(m) ==
  /\ loop = "batch"
  /\ m \in batch
  /\ task[m].step = "received"
  /\ MayStart(m)
  /\ task' = [task EXCEPT ![m].step = "json_loads"]
  /\ invocations' = [invocations EXCEPT ![m] = @ + 1]
  /\ UNCHANGED <<proc, topic, queue, visible, deliveries, loop, lastReceive,
                 batch, reported, lastBatch, batchError>>

\* event = json.loads(message['Body'])
json_loads(m) ==
  /\ loop = "batch"
  /\ m \in batch
  /\ task[m].step = "json_loads"
  /\ \/ /\ task' = [task EXCEPT ![m].step = "load_document"]
        /\ UNCHANGED loop
     \/ Raise(m, task[m], "json_loads")
  /\ UNCHANGED <<proc, topic, queue, visible, deliveries, invocations,
                 lastReceive, batch, reported, lastBatch, batchError>>

\* The number of output documents of a message: one, or with a fan-out
\* one per page of the PDF / per chunk of the text (possibly none).
Outputs == IF proc = "lambda_fanout" THEN 0..MaxOutputs ELSE {1}

\* The document is loaded from storage (and, with a fan-out, split).
load_document(m) ==
  /\ loop = "batch"
  /\ m \in batch
  /\ task[m].step = "load_document"
  /\ \/ /\ \E n \in Outputs :
             task' = [task EXCEPT
                        ![m].nout = n,
                        ![m].k = IF n > 0 THEN 1 ELSE 0,
                        ![m].step = IF n > 0 THEN "process_document"
                                    ELSE EndStep]
        /\ UNCHANGED loop
     \/ Raise(m, task[m], "load_document")
  /\ UNCHANGED <<proc, topic, queue, visible, deliveries, invocations,
                 lastReceive, batch, reported, lastBatch, batchError>>

\* The task of m after step s of its current output succeeded.
Advance(t, s) ==
  IF StepAfter(s) = "next"
  THEN IF t.k < t.nout
       THEN [t EXCEPT !.k = @ + 1, !.step = "process_document"]
       ELSE [t EXCEPT !.step = EndStep]
  ELSE [t EXCEPT !.step = StepAfter(s)]

\* The library call producing the output document k.
process_document(m) ==
  /\ loop = "batch"
  /\ m \in batch
  /\ task[m].step = "process_document"
  /\ \/ /\ task' = [task EXCEPT ![m] = Advance(@, "process_document")]
        /\ UNCHANGED loop
     \/ Raise(m, task[m], "process_document")
  /\ UNCHANGED <<proc, topic, queue, visible, deliveries, invocations,
                 lastReceive, batch, reported, lastBatch, batchError>>

\* s3_client.put_object of the output document k.
put_object(m) ==
  /\ loop = "batch"
  /\ m \in batch
  /\ task[m].step = "put_object"
  /\ \/ /\ task' = [task EXCEPT
                      ![m] = Advance([@ EXCEPT !.uploaded = @ \cup {task[m].k}],
                                     "put_object")]
        /\ UNCHANGED loop
     \/ Raise(m, task[m], "put_object")
  /\ UNCHANGED <<proc, topic, queue, visible, deliveries, invocations,
                 lastReceive, batch, reported, lastBatch, batchError>>

\* publish_event: the call stack is updated and, if a target topic is
\* configured, the event is published to it; sns_client.publish may raise.
publish_event(m) ==
  /\ loop = "batch"
  /\ m \in batch
  /\ task[m].step = "publish_event"
  /\ \/ /\ task' = [task EXCEPT
                      ![m] = Advance(
                        [@ EXCEPT !.published = @ \cup {task[m].k},
                                  !.sent = IF topic THEN @ \cup {task[m].k}
                                           ELSE @],
                        "publish_event")]
        /\ UNCHANGED loop
     \/ Raise(m, task[m], "publish_event")
  /\ UNCHANGED <<proc, topic, queue, visible, deliveries, invocations,
                 lastReceive, batch, reported, lastBatch, batchError>>

\* sqs_client.delete_message(ReceiptHandle=message['ReceiptHandle'])
delete_message(m) ==
  /\ loop = "batch"
  /\ m \in batch
  /\ IsContainer
  /\ task[m].step = "delete_message"
  /\ \/ /\ task' = [task EXCEPT ![m].step = "done", ![m].deleteCalled = TRUE]
        /\ queue' = queue \ {m}
        /\ UNCHANGED loop
     \/ /\ Raise(m, [task[m] EXCEPT !.deleteCalled = TRUE], "delete_message")
        /\ UNCHANGED queue
  /\ UNCHANGED <<proc, topic, visible, deliveries, invocations,
                 lastReceive, batch, reported, lastBatch, batchError>>

(***************************************************************************)
(* The end of a batch.                                                     *)
(***************************************************************************)

\* A batch that is over with the first handler that returns.
BatchFinishedAny == \E m \in batch : task[m].step = "done"

\* Every handler of the batch has returned: the for loop of
\* sqs_consume_queue is over, asyncio.gather has every result.
BatchFinished == \A m \in batch : task[m].step = "done"

\* A consume loop that breaks after its first batch.
AfterBatchBreak == "stopped"

\* Where the consume loop goes after a batch: back to receive_message.
AfterBatch == "poll"

\* The containers: the batch is over, the loop polls again.
on_message_batch ==
  /\ loop = "batch"
  /\ IsContainer
  /\ BatchFinished
  /\ loop' = AfterBatch
  /\ batch' = {}
  /\ UNCHANGED <<proc, topic, queue, visible, deliveries, invocations,
                 lastReceive, task, reported, lastBatch, batchError>>

\* A response that reports no record / every record of the batch.
FailedRecordsNone(B) == {}
FailedRecordsAll(B) == B

\* The records of the batch whose record_handler raised.
FailedRecords(B) == {m \in B : task[m].raisedAt # "none"}

\* The Lambdas: process_partial_response returns the batch item failures,
\* or raises when every record of the batch failed.
process_partial_response ==
  /\ loop = "batch"
  /\ IsLambda
  /\ BatchFinished
  /\ reported' = FailedRecords(batch)
  /\ batchError' = (FailedRecords(batch) = batch)
  /\ lastBatch' = batch
  /\ loop' = "responded"
  /\ UNCHANGED <<proc, topic, queue, visible, deliveries, invocations,
                 lastReceive, batch, task>>

\* The event source of the Lambda settles the invocation: it deletes the
\* records that are not reported as failures (none when the invocation
\* raised) and leaves the others in the queue for redelivery, as the
\* messages they were.
event_source_settle ==
  /\ loop = "responded"
  /\ queue' = queue \ (batch \ reported)
  /\ task' = [m \in Messages |-> IF m \in reported THEN IdleTask ELSE task[m]]
  /\ loop' = "poll"
  /\ batch' = {}
  /\ UNCHANGED <<proc, topic, visible, deliveries, invocations, lastReceive,
                 reported, lastBatch, batchError>>

Next ==
  \/ receive_message /\ UNCHANGED <<pullVars, mergeVars, pdfVars, chunkVars, keywordVars, languageVars, envelopeVars, sizeVars>>
  \/ receive_nothing /\ UNCHANGED <<pullVars, mergeVars, pdfVars, chunkVars, keywordVars, languageVars, envelopeVars, sizeVars>>
  \/ receive_raises /\ UNCHANGED <<pullVars, mergeVars, pdfVars, chunkVars, keywordVars, languageVars, envelopeVars, sizeVars>>
  \/ \E m \in Messages : visibility_timeout(m) /\ UNCHANGED <<pullVars, mergeVars, pdfVars, chunkVars, keywordVars, languageVars, envelopeVars, sizeVars>>
  \/ \E m \in Messages : message_processor(m) /\ UNCHANGED <<pullVars, mergeVars, pdfVars, chunkVars, keywordVars, languageVars, envelopeVars, sizeVars>>
  \/ \E m \in Messages : json_loads(m) /\ UNCHANGED <<pullVars, mergeVars, pdfVars, chunkVars, keywordVars, languageVars, envelopeVars, sizeVars>>
  \/ \E m \in Messages : load_document(m) /\ UNCHANGED <<pullVars, mergeVars, pdfVars, chunkVars, keywordVars, languageVars, envelopeVars, sizeVars>>
  \/ \E m \in Messages : process_document(m) /\ UNCHANGED <<pullVars, mergeVars, pdfVars, chunkVars, keywordVars, languageVars, envelopeVars, sizeVars>>
  \/ \E m \in Messages : put_object(m) /\ UNCHANGED <<pullVars, mergeVars, pdfVars, chunkVars, keywordVars, languageVars, envelopeVars, sizeVars>>
  \/ \E m \in Messages : publish_event(m) /\ UNCHANGED <<pullVars, mergeVars, pdfVars, chunkVars, keywordVars, languageVars, envelopeVars, sizeVars>>
  \/ \E m \in Messages : delete_message(m) /\ UNCHANGED <<pullVars, mergeVars, pdfVars, chunkVars, keywordVars, languageVars, envelopeVars, sizeVars>>
  \/ on_message_batch /\ UNCHANGED <<pullVars, mergeVars, pdfVars, chunkVars, keywordVars, languageVars, envelopeVars, sizeVars>>
  \/ process_partial_response /\ UNCHANGED <<pullVars, mergeVars, pdfVars, chunkVars, keywordVars, languageVars, envelopeVars, sizeVars>>
  \/ event_source_settle /\ UNCHANGED <<pullVars, mergeVars, pdfVars, chunkVars, keywordVars, languageVars, envelopeVars, sizeVars>>

Spec == Init /\ [][Next]_vars

(***************************************************************************)
(* pull(model): processes sharing the cache directory OLLAMA_MODELS pull  *)
(* a model under the file lock <model>.lock.                               *)
(***************************************************************************)

\* The queue side at rest.
QueueIdle ==
  /\ proc = "ollama"
  /\ topic = TRUE
  /\ queue = {}
  /\ visible = {}
  /\ deliveries = [m \in Messages |-> 0]
  /\ invocations = [m \in Messages |-> 0]
  /\ loop = "poll"
  /\ lastReceive = "none"
  /\ batch = {}
  /\ task = [m \in Messages |-> IdleTask]
  /\ reported = {}
  /\ lastBatch = {}
  /\ batchError = FALSE

InitPull ==
  /\ SizeIdle
  /\ EnvelopeIdle
  /\ LanguageIdle
  /\ KeywordIdle
  /\ ChunkIdle
  /\ PdfIdle
  /\ QueueIdle
  /\ MergeIdle
  /\ wants \in [Processes -> Models]
  /\ ppc = [p \in Processes |-> "start"]
  /\ lock = [f \in LockFiles |-> 0]
  /\ cached \in SUBSET Models
  /\ entered = {}

\* A lock file named after the process instead of the model.
LockOfProcess(p, x) == <<"process", p>>

\* The lock file a process takes to pull model x: FileLock(CACHE_DIR/x.lock).
LockOf(p, x) == <<"model", x>>

\* exists(model): ollama.show tells whether the model is in the cache; the
\* process pulls it if not.
exists(p) ==
  /\ ppc[p] = "start"
  /\ ppc' = [ppc EXCEPT ![p] = IF wants[p] \in cached THEN "ready"
                               ELSE "acquire"]
  /\ UNCHANGED <<wants, lock, cached, entered>>

\* lock.acquire(timeout=30) obtains the lock file, which no process holds,
\* and the process goes into ollama.pull.
lock_acquire(p) ==
  /\ ppc[p] = "acquire"
  /\ lock[LockOf(p, wants[p])] = 0
  /\ lock' = [lock EXCEPT ![LockOf(p, wants[p])] = p]
  /\ ppc' = [ppc EXCEPT ![p] = "pulling"]
  /\ entered' = entered \cup {p}
  /\ UNCHANGED <<wants, cached>>

\* lock.acquire(timeout=30) raises Timeout: the lock file was held by
\* another process for the whole timeout.
lock_timeout(p) ==
  /\ ppc[p] = "acquire"
  /\ lock[LockOf(p, wants[p])] # 0
  /\ ppc' = [ppc EXCEPT ![p] = "raised_timeout"]
  /\ UNCHANGED <<wants, lock, cached, entered>>

\* ollama.pull streamed the whole model: it is in the cache, and leaving
\* the with block releases the lock.
pull_completes(p) ==
  /\ ppc[p] = "pulling"
  /\ cached' = cached \cup {wants[p]}
  /\ lock' = [lock EXCEPT ![LockOf(p, wants[p])] = 0]
  /\ ppc' = [ppc EXCEPT ![p] = "ready"]
  /\ UNCHANGED <<wants, entered>>

\* ollama.pull raised: the with block releases the lock all the same.
pull_raises(p) ==
  /\ ppc[p] = "pulling"
  /\ lock' = [lock EXCEPT ![LockOf(p, wants[p])] = 0]
  /\ ppc' = [ppc EXCEPT ![p] = "raised_pull"]
  /\ UNCHANGED <<wants, cached, entered>>

NextPull ==
  \/ \E p \in Processes : exists(p) /\ UNCHANGED <<msgVars, mergeVars, pdfVars, chunkVars, keywordVars, languageVars, envelopeVars, sizeVars>>
  \/ \E p \in Processes : lock_acquire(p) /\ UNCHANGED <<msgVars, mergeVars, pdfVars, chunkVars, keywordVars, languageVars, envelopeVars, sizeVars>>
  \/ \E p \in Processes : lock_timeout(p) /\ UNCHANGED <<msgVars, mergeVars, pdfVars, chunkVars, keywordVars, languageVars, envelopeVars, sizeVars>>
  \/ \E p \in Processes : pull_completes(p) /\ UNCHANGED <<msgVars, mergeVars, pdfVars, chunkVars, keywordVars, languageVars, envelopeVars, sizeVars>>
  \/ \E p \in Processes : pull_raises(p) /\ UNCHANGED <<msgVars, mergeVars, pdfVars, chunkVars, keywordVars, languageVars, envelopeVars, sizeVars>>

SpecPull == InitPull /\ [][NextPull]_vars

(***************************************************************************)
(* merge(dct, merge_dct) and the processors that merge the value they      *)
(* computed into the metadata of the event.                                *)
(***************************************************************************)

Atoms == {Atom(i) : i \in 1..MaxAtom}

\* The dicts with keys among K and values among V.
DictsOver(K, V) == {Dict(f) : f \in UNION {[S -> V] : S \in SUBSET K}}

\* Dicts nested two deep.
Keys == {"x", "y"}
Dicts1 == DictsOver(Keys, Atoms)
Dicts2 == DictsOver(Keys, Atoms \cup Dicts1)

\* The metadata an event may carry: properties.kind, properties.attrs with
\* what earlier stages wrote.
AttrsDicts == DictsOver({"language", "variance"}, Atoms)
PropertiesDicts ==
  {P \in DictsOver({"kind", "attrs"}, Atoms \cup AttrsDicts) :
     /\ "kind" \in DOMAIN P.items => ~P.items["kind"].d
     /\ "attrs" \in DOMAIN P.items => P.items["attrs"].d}
MetadataDicts == DictsOver({"properties"}, PropertiesDicts)

\* dct[k] = v
SetItem(D, k, v) ==
  Dict([x \in DOMAIN D.items \cup {k} |-> IF x = k THEN v ELSE D.items[x]])

\* dict.update: the top-level keys only.
merge_shallow(D, M) ==
  Dict([x \in DOMAIN D.items \cup DOMAIN M.items |->
          IF x \in DOMAIN M.items THEN M.items[x] ELSE D.items[x]])

\* merge of the CLIP, sentence-transformers and PDF processors: for each
\* key of merge_dct, recurse when both values are dicts, assign otherwise.
\* merge_loop(D, M, K) is D after the iterations for the keys K.
RECURSIVE merge(_, _), merge_loop(_, _, _)
merge(D, M) == merge_loop(D, M, DOMAIN M.items)
merge_loop(D, M, K) ==
  IF K = {} THEN D
  ELSE LET k == CHOOSE x \in K : TRUE
           D1 == IF /\ k \in DOMAIN D.items
                    /\ D.items[k].d
                    /\ M.items[k].d
                 THEN SetItem(D, k, merge(D.items[k], M.items[k]))
                 ELSE SetItem(D, k, M.items[k])
       IN merge_loop(D1, M, K \ {k})

\* merge of the Whisper and Laplacian processors: as above, but the value
\* is assigned only `if k not in dct`.
RECURSIVE merge_if_absent(_, _), merge_if_absent_loop(_, _, _)
merge_if_absent(D, M) == merge_if_absent_loop(D, M, DOMAIN M.items)
merge_if_absent_loop(D, M, K) ==
  IF K = {} THEN D
  ELSE LET k == CHOOSE x \in K : TRUE
           D1 == IF /\ k \in DOMAIN D.items
                    /\ D.items[k].d
                    /\ M.items[k].d
                 THEN SetItem(D, k,
                              merge_if_absent(D.items[k], M.items[k]))
                 ELSE IF k \notin DOMAIN D.items
                      THEN SetItem(D, k, M.items[k])
                      ELSE D
       IN merge_if_absent_loop(D1, M, K \ {k})

\* {'properties': {'kind': ..., 'attrs': {name: value}}}; the kinds 'text'
\* and 'image' are written as the atom 1.
Enrichment(name, value) ==
  Dict([p \in {"properties"} |->
    Dict([q \in {"kind", "attrs"} |->
      IF q = "kind" THEN Atom(1)
      ELSE Dict([r \in {name} |-> Atom(value)])])])

InitMerge ==
  /\ SizeIdle
  /\ EnvelopeIdle
  /\ LanguageIdle
  /\ KeywordIdle
  /\ ChunkIdle
  /\ PdfIdle
  /\ QueueIdle
  /\ PullIdle
  /\ mpc = "call"
  /\ result = EmptyDict
  /\ \/ /\ fn = "merge"
        /\ dct \in Dicts2
        /\ merge_dct \in Dicts2
        /\ computed = 0
     \/ /\ fn \in {"process_event", "process_document"}
        /\ dct \in MetadataDicts
        /\ merge_dct = EmptyDict
        /\ computed \in 0..MaxAtom

\* merge(dct, merge_dct)
call_merge ==
  /\ mpc = "call"
  /\ fn = "merge"
  /\ result' = merge(dct, merge_dct)
  /\ mpc' = "return"
  /\ UNCHANGED <<fn, dct, merge_dct, computed>>

\* process_event of the Whisper transcriber, from the transcription on:
\* `if language:` the language is merged into the metadata.
whisper_process_event ==
  /\ mpc = "call"
  /\ fn = "process_event"
  /\ result' = IF computed # 0
               THEN merge_if_absent(dct, Enrichment("language", computed))
               ELSE dct
  /\ mpc' = "return"
  /\ UNCHANGED <<fn, dct, merge_dct, computed>>

\* process_document of the Laplacian processor: the variance is merged
\* into the metadata.
laplacian_process_document ==
  /\ mpc = "call"
  /\ fn = "process_document"
  /\ result' = merge_if_absent(dct, Enrichment("variance", computed))
  /\ mpc' = "return"
  /\ UNCHANGED <<fn, dct, merge_dct, computed>>

NextMerge ==
  \/ call_merge /\ UNCHANGED <<msgVars, pullVars, pdfVars, chunkVars, keywordVars, languageVars, envelopeVars, sizeVars>>
  \/ whisper_process_event /\ UNCHANGED <<msgVars, pullVars, pdfVars, chunkVars, keywordVars, languageVars, envelopeVars, sizeVars>>
  \/ laplacian_process_document /\ UNCHANGED <<msgVars, pullVars, pdfVars, chunkVars, keywordVars, languageVars, envelopeVars, sizeVars>>

SpecMerge == InitMerge /\ [][NextMerge]_vars

(***************************************************************************)
(* The PDF converter: extract_pages publishes one event per page,          *)
(* extract_document one event for the document.  Of the metadata of the    *)
(* document only properties.kind and properties.attrs.pages are kept; the  *)
(* kind 'text' is written as the atom 1.                                   *)
(***************************************************************************)

\* A dict of one item.
Dict1(k, v) == Dict([x \in {k} |-> v])

\* {'properties': {'kind': 'text', 'attrs': attrs}}
TextProperties(attrs) ==
  Dict1("properties",
        Dict([q \in {"kind", "attrs"} |->
                IF q = "kind" THEN Atom(1) ELSE attrs]))

\* The layout entry of get_layout_from_page.
Layout(t, i) ==
  Dict([q \in {"tableCount", "imageCount"} |->
          IF q = "tableCount" THEN Atom(t) ELSE Atom(i)])

\* The PDF documents: a number of pages, and the tables and images that
\* pdfplumber finds on each.
Pdfs ==
  UNION {[pages : {n}, tables : [1..n -> 0..MaxCount],
          images : [1..n -> 0..MaxCount]] : n \in 0..MaxPages}

\* data.metadata of the events received: without properties, without
\* attrs, or with attrs that hold some of page, pages, layout.
PdfAttrsDicts ==
  {Dict([k \in S |-> IF k = "layout" THEN Layout(0, 0) ELSE Atom(1)]) :
     S \in SUBSET {"page", "pages", "layout"}}
PdfMetadataDicts ==
  {EmptyDict, Dict1("properties", Dict1("kind", Atom(1)))}
    \cup {TextProperties(A) : A \in PdfAttrsDicts}

Tasks ==
  [segmentationType : {"page", "document"},
   outputType : {"text", "image", "pdf"},
   layoutExtraction : BOOLEAN]

\* metadata has properties.attrs
HasAttrs(D) ==
  /\ "properties" \in DOMAIN D.items
  /\ D.items["properties"].d
  /\ "attrs" \in DOMAIN D.items["properties"].items

\* metadata.get('properties', {}).get('attrs', {})
GetAttrs(D) ==
  IF HasAttrs(D) THEN D.items["properties"].items["attrs"] ELSE EmptyDict

\* metadata['properties']['attrs'][name] = v
SetAttr(D, name, v) ==
  SetItem(D, "properties",
          SetItem(D.items["properties"], "attrs",
                  SetItem(D.items["properties"].items["attrs"], name, v)))

\* attrs of extract_pages and extract_document: the attrs dict of the
\* event itself when the received event had one, so that it follows what
\* is merged into the event, and a dict of its own otherwise.
attrs == IF HasAttrs(received) THEN GetAttrs(event) ELSE EmptyDict

get_document_metadata == TextProperties(Dict1("pages", Atom(pdf.pages)))

get_layout_from_page(page_number) ==
  TextProperties(Dict1("layout",
    Layout(pdf.tables[page_number], pdf.images[page_number])))

\* get_layout_from_document: the entry starts with the keys table_count
\* and image_count, and `layout['tableCount'] +=`, `layout['imageCount'] +=`
\* run for a page with tables, with images.
get_layout_from_document_raises ==
  \E k \in 1..pdf.pages : pdf.tables[k] > 0 \/ pdf.images[k] > 0

get_layout_from_document ==
  TextProperties(Dict1("layout",
    Dict([q \in {"table_count", "image_count"} |-> Atom(0)])))

\* POWERTOOLS_SERVICE_NAME of the processor, and the call stacks of the
\* events it receives: the names of the middlewares before it.
SERVICE_NAME == "svc"
CallStacks == {<<>>, <<"up">>, <<"up", "source">>}

\* event['data']['callStack'].insert(0, SERVICE_NAME)
InsertServiceName(stack) == <<SERVICE_NAME>> \o stack

PageNumberFirst(idx) == 1

\* page_number = page_idx + 1
PageNumber(idx) == idx + 1

InitPdf ==
  /\ SizeIdle
  /\ EnvelopeIdle
  /\ LanguageIdle
  /\ KeywordIdle
  /\ ChunkIdle
  /\ QueueIdle
  /\ PullIdle
  /\ MergeIdle
  /\ TASK \in Tasks
  /\ pdf \in Pdfs
  /\ received \in PdfMetadataDicts
  /\ callStack \in CallStacks
  /\ event = received
  /\ page_idx = 0
  /\ published = <<>>
  /\ pdfpc = "call"

\* One iteration of the loop of extract_pages; send_document either
\* publishes the clone or raises.
extract_pages_iteration ==
  /\ pdfpc = "call"
  /\ TASK.segmentationType = "page"
  /\ page_idx < pdf.pages
  /\ LET page_number == PageNumber(page_idx)
         clone0 == event
         clone1 == IF "pages" \notin DOMAIN attrs.items
                   THEN merge(clone0, get_document_metadata)
                   ELSE clone0
         clone2 == IF "page" \notin DOMAIN attrs.items
                   THEN SetAttr(clone1, "page", Atom(page_number))
                   ELSE clone1
     IN /\ event' = IF /\ TASK.layoutExtraction
                       /\ "layout" \notin DOMAIN attrs.items
                    THEN merge(event, get_layout_from_page(page_number))
                    ELSE event
        /\ \/ /\ published' = Append(published,
                                [page |-> page_number, metadata |-> clone2,
                                 callStack |-> InsertServiceName(callStack)])
              /\ page_idx' = page_idx + 1
              /\ pdfpc' = pdfpc
           \/ /\ pdfpc' = "raised"
              /\ UNCHANGED <<published, page_idx>>
  /\ UNCHANGED <<TASK, pdf, received, callStack>>

\* The loop of extract_pages is over.
extract_pages_return ==
  /\ pdfpc = "call"
  /\ TASK.segmentationType = "page"
  /\ page_idx = pdf.pages
  /\ pdfpc' = "returned"
  /\ UNCHANGED <<TASK, pdf, received, callStack, event, page_idx, published>>

\* extract_document
extract_document ==
  /\ pdfpc = "call"
  /\ TASK.segmentationType = "document"
  /\ LET event1 == IF "pages" \notin DOMAIN attrs.items
                   THEN merge(event, get_document_metadata)
                   ELSE event
         event2 == IF TASK.layoutExtraction
                   THEN merge(event1, get_layout_from_document)
                   ELSE event1
     IN IF TASK.layoutExtraction /\ get_layout_from_document_raises
        THEN /\ event' = event1
             /\ pdfpc' = "KeyError"
             /\ UNCHANGED published
        ELSE /\ event' = event2
             /\ IF TASK.outputType \in {"text", "image"}
                THEN \/ /\ published' = Append(published,
                                          [page |-> 0, metadata |-> event2,
                                           callStack |->
                                             InsertServiceName(callStack)])
                        /\ pdfpc' = "returned"
                     \/ /\ pdfpc' = "raised"
                        /\ UNCHANGED published
                ELSE /\ pdfpc' = "returned"
                     /\ UNCHANGED published
  /\ UNCHANGED <<TASK, pdf, received, callStack, page_idx>>

NextPdf ==
  \/ extract_pages_iteration /\ UNCHANGED <<msgVars, pullVars, mergeVars, chunkVars, keywordVars, languageVars, envelopeVars, sizeVars>>
  \/ extract_pages_return /\ UNCHANGED <<msgVars, pullVars, mergeVars, chunkVars, keywordVars, languageVars, envelopeVars, sizeVars>>
  \/ extract_document /\ UNCHANGED <<msgVars, pullVars, mergeVars, chunkVars, keywordVars, languageVars, envelopeVars, sizeVars>>

SpecPdf == InitPdf /\ [][NextPdf]_vars

(***************************************************************************)
(* chunk_text(text, max_byte_length).  A string is the sequence of its     *)
(* code points; the text is given by the sentences sent_tokenize finds.    *)
(***************************************************************************)

\* The characters of the texts: 'a' and 'e' with an acute accent.
Chars == {97, 233}

\* The number of bytes of a code point in UTF-8.
Utf8Len(c) ==
  IF c < 128 THEN 1 ELSE IF c < 2048 THEN 2 ELSE IF c < 65536 THEN 3 ELSE 4

\* len(s.encode('utf-8'))
ByteLength(s) == Sum([i \in 1..Len(s) |-> Utf8Len(s[i])], 1..Len(s))

SentenceSet == UNION {[1..n -> Chars] : n \in 1..MaxSentenceLen}
Texts == UNION {[1..n -> SentenceSet] : n \in 0..MaxSentences}

\* The for loop of chunk_text from the sentence idx on.
RECURSIVE chunk_loop(_, _, _, _, _)
chunk_loop(S, max, idx, currentChunk, C) ==
  IF idx > Len(S) THEN C
  ELSE LET currentSentence == S[idx]
           over == ByteLength(currentSentence) + ByteLength(currentChunk)
                     > max
           C1 == IF over THEN Append(C, currentChunk) ELSE C
           chunk1 == IF over THEN currentSentence
                     ELSE currentChunk \o currentSentence
           C2 == IF idx = Len(S) THEN Append(C1, chunk1) ELSE C1
       IN chunk_loop(S, max, idx + 1, chunk1, C2)

chunk_text(S, max) == chunk_loop(S, max, 1, <<>>, <<>>)

InitChunk ==
  /\ SizeIdle
  /\ EnvelopeIdle
  /\ KeywordIdle
  /\ LanguageIdle
  /\ QueueIdle
  /\ PullIdle
  /\ MergeIdle
  /\ PdfIdle
  /\ sentences \in Texts
  /\ max_byte_length \in 1..MaxByteLength
  /\ chunks = <<>>
  /\ cpc = "call"

call_chunk_text ==
  /\ cpc = "call"
  /\ chunks' = chunk_text(sentences, max_byte_length)
  /\ cpc' = "return"
  /\ UNCHANGED <<sentences, max_byte_length>>

NextChunk ==
  \/ call_chunk_text /\ UNCHANGED <<msgVars, pullVars, mergeVars, pdfVars, keywordVars, languageVars, envelopeVars, sizeVars>>

SpecChunk == InitChunk /\ [][NextChunk]_vars

(***************************************************************************)
(* get_keywords(text, top_n): the keywords of each paragraph are           *)
(* extracted by KeyBERT, merged, sorted by score and cut to top_n.  A      *)
(* score is an integer here.                                               *)
(***************************************************************************)

KeywordSet == {"a", "b", "c"}
Scored == KeywordSet \X (1..MaxScore)

\* What kw_model.extract_keywords may return for a paragraph: up to n
\* pairs of a keyword and its score, at least one.
Extracted(n) == UNION {[1..l -> Scored] : l \in 1..n}

\* result_dict after the pairs kw[i..]: a dict is the sequence of its
\* items, in insertion order.
RECURSIVE result_dict_loop(_, _, _)
result_dict_loop(kw, i, D) ==
  IF i > Len(kw) THEN D
  ELSE LET key == kw[i][1]
           value == kw[i][2]
           at == {j \in 1..Len(D) : D[j][1] = key}
           D1 == IF at = {} THEN Append(D, <<key, value>>)
                 ELSE IF \E j \in at : value > D[j][2]
                      THEN [j \in 1..Len(D) |->
                              IF j \in at THEN <<key, value>> ELSE D[j]]
                      ELSE D
       IN result_dict_loop(kw, i + 1, D1)

result_dict(kw) == result_dict_loop(kw, 1, <<>>)

\* The item x put into the sorted list L behind the items whose score is
\* not lower.
InsertByScore(L, x) ==
  LET before == {j \in 1..Len(L) : L[j][2] >= x[2]}
      n == Cardinality(before)
  IN SubSeq(L, 1, n) \o <<x>> \o SubSeq(L, n + 1, Len(L))

RECURSIVE sorted_loop(_, _, _)
sorted_loop(items, i, L) ==
  IF i > Len(items) THEN L
  ELSE sorted_loop(items, i + 1, InsertByScore(L, items[i]))

\* sorted(items, key=lambda x: x[1]), lowest score first.
sorted_ascending(items) ==
  LET L == sorted_loop(items, 1, <<>>)
  IN [j \in 1..Len(L) |-> L[Len(L) + 1 - j]]

\* sorted(items, key=lambda x: x[1], reverse=True): highest score first,
\* items of the same score in the order they had.
sorted_reverse(items) == sorted_loop(items, 1, <<>>)

\* [x[0] for x in merged_keywords[:top_n]]
get_keywords(kw, n) ==
  LET merged_keywords == sorted_reverse(result_dict(kw))
      cut == IF n < Len(merged_keywords) THEN n ELSE Len(merged_keywords)
  IN [j \in 1..cut |-> merged_keywords[j][1]]

InitKeywords ==
  /\ SizeIdle
  /\ EnvelopeIdle
  /\ LanguageIdle
  /\ QueueIdle
  /\ PullIdle
  /\ MergeIdle
  /\ PdfIdle
  /\ ChunkIdle
  /\ top_n \in 1..MaxTopN
  /\ keywords = <<>>
  /\ kresult = <<>>
  /\ kpc = "extract"

\* One iteration of `for paragraph in paragraphs`.
extract_keywords ==
  /\ kpc = "extract"
  /\ \E found \in Extracted(top_n) :
       /\ Len(keywords) + Len(found) <= MaxKeywords
       /\ keywords' = keywords \o found
  /\ UNCHANGED <<top_n, kresult, kpc>>

\* The paragraphs are done: merge, sort, cut, return.
get_keywords_return ==
  /\ kpc = "extract"
  /\ kresult' = get_keywords(keywords, top_n)
  /\ kpc' = "return"
  /\ UNCHANGED <<top_n, keywords>>

NextKeywords ==
  \/ extract_keywords
       /\ UNCHANGED <<msgVars, pullVars, mergeVars, pdfVars, chunkVars, languageVars, envelopeVars, sizeVars>>
  \/ get_keywords_return
       /\ UNCHANGED <<msgVars, pullVars, mergeVars, pdfVars, chunkVars, languageVars, envelopeVars, sizeVars>>

SpecKeywords == InitKeywords /\ [][NextKeywords]_vars

(***************************************************************************)
(* get_language_code(input_code) of the syndication feed parser.  A code   *)
(* is the sequence of its characters.                                      *)
(***************************************************************************)

CodeChars == {"e", "N", "-", "_"}
Codes == UNION {[1..n -> CodeChars] : n \in 0..MaxCodeLen}

\* str.lower()
lower(code) == [i \in 1..Len(code) |-> IF code[i] = "N" THEN "n" ELSE code[i]]

\* code.split(sep)[0]: what precedes the first separator.
SplitFirst(code, sep) ==
  LET at == {i \in 1..Len(code) : code[i] = sep}
  IN IF at = {} THEN code
     ELSE SubSeq(code, 1, (CHOOSE i \in at : \A j \in at : i <= j) - 1)

Contains(code, c) == \E i \in 1..Len(code) : code[i] = c

get_language_code(code) ==
  LET lowered == lower(code)
  IN IF Contains(lowered, "-") \/ Contains(lowered, "_")
     THEN IF Contains(lowered, "-") THEN SplitFirst(lowered, "-")
          ELSE SplitFirst(lowered, "_")
     ELSE lowered

InitLanguage ==
  /\ SizeIdle
  /\ EnvelopeIdle
  /\ QueueIdle
  /\ PullIdle
  /\ MergeIdle
  /\ PdfIdle
  /\ ChunkIdle
  /\ KeywordIdle
  /\ input_code \in Codes
  /\ language = <<>>
  /\ lpc = "call"

\* language = get_language_code(doc.feed.get('language', ''))
call_get_language_code ==
  /\ lpc = "call"
  /\ language' = get_language_code(input_code)
  /\ lpc' = "return"
  /\ UNCHANGED input_code

NextLanguage ==
  \/ call_get_language_code
       /\ UNCHANGED <<msgVars, pullVars, mergeVars, pdfVars, chunkVars, keywordVars, envelopeVars, sizeVars>>

SpecLanguage == InitLanguage /\ [][NextLanguage]_vars

(***************************************************************************)
(* The envelope of the events: record_handler of the Laplacian processor   *)
(* and of the video metadata extractor, document_handler of the tiling     *)
(* text splitter, and the PDF converter above.  publish_event puts the     *)
(* service name on the call stack of the event it is given and returns     *)
(* that event.                                                             *)
(***************************************************************************)

EnvelopeProcessors == {"laplacian", "video", "tiling"}

\* dct |= other: the top-level keys of other replace those of dct.
dict_ior(D, M) ==
  Dict([x \in DOMAIN D.items \cup DOMAIN M.items |->
          IF x \in DOMAIN M.items THEN M.items[x] ELSE D.items[x]])

\* get_metadata(chunk, order) of the tiling text splitter; the hash of the
\* chunk is written as its order.
tiling_get_metadata(i) ==
  TextProperties(Dict1("chunk",
    Dict([q \in {"id", "order"} |-> Atom(i)])))

\* get_metadata(video_url) of the video metadata extractor: audioTracks,
\* and the duration when the file has a video track with one.  The kind
\* 'video' is written as the atom 2, the list of tracks as the atom 0.
video_get_metadata(has_duration) ==
  Dict1("properties",
    Dict([q \in {"kind", "attrs"} |->
      IF q = "kind" THEN Atom(2)
      ELSE Dict([r \in IF has_duration THEN {"audioTracks", "duration"}
                       ELSE {"audioTracks"} |->
                   IF r = "duration" THEN Atom(1) ELSE Atom(0)])]))

\* publish_event(e): the event it returns, and whether it was sent.
publish_event_returns(e) ==
  [callStack |-> InsertServiceName(e.callStack),
   metadata |-> e.metadata,
   sent |-> target_topic]

InitEnvelopeHandlers ==
  /\ SizeIdle
  /\ PdfIdle
  /\ processor \in EnvelopeProcessors
  /\ target_topic \in BOOLEAN
  /\ rcvd \in [callStack : CallStacks, metadata : MetadataDicts]
  /\ ev = rcvd
  /\ n_chunks \in 0..MaxOutputs
  /\ processor # "tiling" => n_chunks = 1
  /\ order = 0
  /\ returned = <<>>
  /\ epc = "call"

InitEnvelope ==
  /\ SizeIdle
  /\ QueueIdle
  /\ PullIdle
  /\ MergeIdle
  /\ ChunkIdle
  /\ KeywordIdle
  /\ LanguageIdle
  /\ \/ InitEnvelopeHandlers
     \/ /\ EnvelopeIdle
        /\ TASK \in Tasks
        /\ pdf \in Pdfs
        /\ received \in PdfMetadataDicts
        /\ callStack \in CallStacks
        /\ event = received
        /\ page_idx = 0
        /\ published = <<>>
        /\ pdfpc = "call"

\* record_handler of the Laplacian processor:
\* publish_event(process_document(event))
laplacian_record_handler ==
  /\ epc = "call"
  /\ processor = "laplacian"
  /\ \E variance \in 1..MaxAtom :
       LET e == [ev EXCEPT !.metadata =
                   merge_if_absent(@, Enrichment("variance", variance))]
       IN /\ returned' = Append(returned, publish_event_returns(e))
          /\ ev' = [e EXCEPT !.callStack = InsertServiceName(@)]
  /\ epc' = "returned"
  /\ UNCHANGED <<processor, target_topic, rcvd, n_chunks, order>>

\* record_handler of the video metadata extractor:
\* publish_event(process_document(event))
video_record_handler ==
  /\ epc = "call"
  /\ processor = "video"
  /\ \E has_duration \in BOOLEAN :
       LET e == [ev EXCEPT !.metadata =
                   dict_ior(@, video_get_metadata(has_duration))]
       IN /\ returned' = Append(returned, publish_event_returns(e))
          /\ ev' = [e EXCEPT !.callStack = InsertServiceName(@)]
  /\ epc' = "returned"
  /\ UNCHANGED <<processor, target_topic, rcvd, n_chunks, order>>

\* on_chunk(tile, idx, event) of the tiling text splitter, called by
\* document_handler with the one event for every chunk.
on_chunk ==
  /\ epc = "call"
  /\ processor = "tiling"
  /\ order < n_chunks
  /\ LET e == [ev EXCEPT !.metadata =
                 dict_ior(@, tiling_get_metadata(order))]
     IN /\ returned' = Append(returned, publish_event_returns(e))
        /\ ev' = [e EXCEPT !.callStack = InsertServiceName(@)]
  /\ order' = order + 1
  /\ UNCHANGED <<processor, target_topic, rcvd, n_chunks, epc>>

\* The loop of document_handler is over.
document_handler_return ==
  /\ epc = "call"
  /\ processor = "tiling"
  /\ order = n_chunks
  /\ epc' = "returned"
  /\ UNCHANGED <<processor, target_topic, rcvd, ev, n_chunks, order, returned>>

NextEnvelope ==
  \/ laplacian_record_handler
       /\ UNCHANGED <<msgVars, pullVars, mergeVars, pdfVars, chunkVars, keywordVars, languageVars, sizeVars>>
  \/ video_record_handler
       /\ UNCHANGED <<msgVars, pullVars, mergeVars, pdfVars, chunkVars, keywordVars, languageVars, sizeVars>>
  \/ on_chunk
       /\ UNCHANGED <<msgVars, pullVars, mergeVars, pdfVars, chunkVars, keywordVars, languageVars, sizeVars>>
  \/ document_handler_return
       /\ UNCHANGED <<msgVars, pullVars, mergeVars, pdfVars, chunkVars, keywordVars, languageVars, sizeVars>>
  \/ NextPdf

SpecEnvelope == InitEnvelope /\ [][NextEnvelope]_vars

(***************************************************************************)
(* data.document.size of a document a processor writes: the Canny edge     *)
(* detector uploads bytes, the Whisper transcriber and the BERT            *)
(* summarizer upload a str, which is sent in UTF-8.                        *)
(***************************************************************************)

Writers == {"canny", "whisper", "bert"}
Payloads == UNION {[1..n -> Chars] : n \in 0..MaxPayloadLen}

\* The bytes put_object stores for a Body.
UploadedBytes(w, body) ==
  IF w = "canny" THEN Len(body) ELSE ByteLength(body)

\* sys.getsizeof(x), the size of the object in memory: the items of x and
\* the header of the object, whose size depends on the interpreter.  The
\* characters of Chars take one byte each in a str.
getsizeof(x, header) == header + Len(x)

InitSize ==
  /\ QueueIdle
  /\ PullIdle
  /\ MergeIdle
  /\ PdfIdle
  /\ ChunkIdle
  /\ KeywordIdle
  /\ LanguageIdle
  /\ EnvelopeIdle
  /\ writer \in Writers
  /\ payload \in Payloads
  /\ document = [size |-> 0, uploaded |-> 0]
  /\ spc = "call"

\* process_document of the Canny edge detector, from the upload on.
canny_process_document ==
  /\ spc = "call"
  /\ writer = "canny"
  /\ \E header \in 1..MaxObjectHeader :
       document' = [size |-> getsizeof(payload, header),
                    uploaded |-> UploadedBytes(writer, payload)]
  /\ spc' = "return"
  /\ UNCHANGED <<writer, payload>>

\* process_event of the Whisper transcriber, from the upload on:
\* 'size': len(data_payload)
whisper_upload ==
  /\ spc = "call"
  /\ writer = "whisper"
  /\ document' = [size |-> Len(payload),
                  uploaded |-> UploadedBytes(writer, payload)]
  /\ spc' = "return"
  /\ UNCHANGED <<writer, payload>>

\* process_document of the BERT extractive summarizer, from the upload on.
bert_process_document ==
  /\ spc = "call"
  /\ writer = "bert"
  /\ \E header \in 1..MaxObjectHeader :
       document' = [size |-> getsizeof(payload, header),
                    uploaded |-> UploadedBytes(writer, payload)]
  /\ spc' = "return"
  /\ UNCHANGED <<writer, payload>>

NextSize ==
  \/ canny_process_document
       /\ UNCHANGED <<msgVars, pullVars, mergeVars, pdfVars, chunkVars,
                      keywordVars, languageVars, envelopeVars>>
  \/ whisper_upload
       /\ UNCHANGED <<msgVars, pullVars, mergeVars, pdfVars, chunkVars,
                      keywordVars, languageVars, envelopeVars>>
  \/ bert_process_document
       /\ UNCHANGED <<msgVars, pullVars, mergeVars, pdfVars, chunkVars,
                      keywordVars, languageVars, envelopeVars>>

SpecSize == InitSize /\ [][NextSize]_vars

(***************************************************************************)
(* Claims about the consume / publish / acknowledge protocol.              *)
(***************************************************************************)

\* The steps of on_message that come before delete_message.
BeforeDelete == {"json_loads", "load_document", "process_document",
                 "put_object", "publish_event"}

\* All the outputs of the task were uploaded and published.
Completed(t) ==
  /\ t.uploaded = 1..t.nout
  /\ t.published = 1..t.nout

\* C1: in the container workers, on_message calls delete_message for a
\* message only after the processing step and publish_event returned
\* without raising, never when one of them raised, and a message whose
\* processing or publishing failed stays in the queue.
C1_DeleteOnlyAfterPublish ==
  IsContainer =>
    \A m \in Messages :
      /\ (task[m].deleteCalled \/ task[m].step = "delete_message")
           => (task[m].nout = 1 /\ Completed(task[m])
               /\ task[m].raisedAt \in {"none", "delete_message"})
      /\ task[m].raisedAt \in BeforeDelete
           => (~task[m].deleteCalled /\ task[m].step = "done" /\ m \in queue)

C1_Witness ==
  /\ IsContainer
  /\ \E m, o \in Messages :
       /\ task[m].deleteCalled /\ m \notin queue
       /\ task[o].raisedAt = "publish_event" /\ o \in queue

\* C2 as claimed: every acknowledged message or record has had at least one
\* enriched event published to the downstream topic.
C2_AcknowledgedWasSent ==
  \A m \in Messages : m \notin queue => task[m].sent # {}

\* C2 as amended: every acknowledged message or record has had publish_event
\* return for each of its outputs (one, or one per page / chunk, possibly
\* none); each was sent to the topic exactly when a topic is configured.
C2_AcknowledgedWasPublished ==
  \A m \in Messages :
    m \notin queue =>
      /\ Completed(task[m])
      /\ task[m].raisedAt = "none"
      /\ task[m].sent = (IF topic THEN 1..task[m].nout ELSE {})
      /\ (proc # "lambda_fanout" => task[m].nout = 1)

C2_Witness ==
  /\ IsLambda
  /\ topic
  /\ \E m \in Messages : m \notin queue /\ task[m].sent = 1..MaxOutputs

\* C3: upload, publish, acknowledge: an event is published only after the
\* put_object of its document returned, no event is published for a
\* document whose upload raised, and a message is acknowledged only after
\* its events were published.
C3_UploadBeforePublish ==
  \A m \in Messages :
    /\ task[m].published \subseteq task[m].uploaded
    /\ task[m].sent \subseteq task[m].published
    /\ task[m].raisedAt = "put_object"
         => (task[m].k \notin task[m].published
             /\ task[m].k \notin task[m].uploaded)
    /\ (m \notin queue \/ task[m].deleteCalled) => Completed(task[m])

C3_Witness ==
  \E m \in Messages :
    /\ task[m].raisedAt = "put_object"
    /\ task[m].k = 2
    /\ task[m].published = {1}
    /\ \E o \in Messages : o \notin queue /\ task[o].uploaded = {1}

\* C4: an exception raised while parsing, processing, publishing or
\* deleting is caught inside on_message; it does not end the consume loop
\* and the worker does not handle the failed message again by itself.
C4_ExceptionsCaught ==
  IsContainer =>
    /\ loop # "crashed_handler"
    /\ \A m \in Messages :
         /\ task[m].raisedAt # "none"
              => (task[m].caughtBy = "on_message" /\ task[m].step = "done")
         /\ invocations[m] <= deliveries[m]

C4_Witness ==
  /\ proc = "container"
  /\ \E m, o \in Messages :
       /\ task[m].raisedAt = "delete_message"
       /\ batch = {o}
       /\ o # m
       /\ task[o].step = "json_loads"

\* C5: the consume loop polls again after every receive that returned
\* messages and returns exactly when a receive returned none.
C5_PollUntilEmpty ==
  IsContainer =>
    /\ loop = "stopped" <=> lastReceive = "empty"
    /\ lastReceive = "some" => loop \in {"batch", "poll"}
    /\ loop = "batch" <=> batch # {}

C5_Witness ==
  /\ IsContainer
  /\ loop = "stopped"
  /\ \A m \in Messages : deliveries[m] > 0
  /\ \E m \in Messages : deliveries[m] > 1

\* A step of the handler of m.
HandlerStep(m) ==
  \/ message_processor(m)
  \/ json_loads(m)
  \/ load_document(m)
  \/ process_document(m)
  \/ put_object(m)
  \/ publish_event(m)
  \/ delete_message(m)

C7_PartialFailure ==
  IsLambda =>
    /\ loop # "crashed_handler"
    /\ loop = "responded" =>
         \A m \in batch :
           /\ invocations[m] = deliveries[m]
           /\ task[m].step = "done"
           /\ m \in reported <=> task[m].raisedAt # "none"
           /\ m \notin reported => Completed(task[m])
    /\ \A m \in Messages : m \notin queue => task[m].raisedAt = "none"

C7_Witness ==
  /\ proc = "lambda"
  /\ loop = "responded"
  /\ \E m, o \in batch :
       /\ m < o
       /\ m \in reported
       /\ o \notin reported /\ task[o].published = {1}

(***************************************************************************)
(* Claims about pull.                                                      *)
(***************************************************************************)

\* C8: no two processes sharing the cache directory are inside ollama.pull
\* for the same model at once, and a process whose lock.acquire timed out
\* raises without pulling.
C8_OnePullerPerModel ==
  /\ \A p, q \in Processes :
       (p # q /\ ppc[p] = "pulling" /\ ppc[q] = "pulling")
         => wants[p] # wants[q]
  /\ \A p \in Processes : ppc[p] = "raised_timeout" => p \notin entered

C8_Witness ==
  \E p, q, r \in Processes :
    /\ ppc[p] = "pulling"
    /\ ppc[q] = "raised_timeout" /\ wants[q] = wants[p]
    /\ ppc[r] = "pulling" /\ wants[r] # wants[p]

(***************************************************************************)
(* Claims about merge.                                                     *)
(***************************************************************************)

\* R is D updated recursively with M: the keys of R are those of D and of
\* M; a key of M holds the recursive update where D and M both hold a
\* dict, and the value of M otherwise; every other key holds its value
\* of D.
RECURSIVE IsRecursiveUpdate(_, _, _)
IsRecursiveUpdate(R, D, M) ==
  /\ R.d
  /\ DOMAIN R.items = DOMAIN D.items \cup DOMAIN M.items
  /\ \A k \in DOMAIN M.items :
       IF k \in DOMAIN D.items /\ D.items[k].d /\ M.items[k].d
       THEN IsRecursiveUpdate(R.items[k], D.items[k], M.items[k])
       ELSE R.items[k] = M.items[k]
  /\ \A k \in DOMAIN D.items \ DOMAIN M.items : R.items[k] = D.items[k]

\* C9: merge(dct, merge_dct) updates dct recursively: every key of
\* merge_dct is a key of dct afterwards, two dicts under the same key are
\* merged recursively, any other value of merge_dct replaces that of dct,
\* and the keys merge_dct does not have keep their value, at every depth.
C9_MergeIsRecursiveUpdate ==
  (fn = "merge" /\ mpc = "return") => IsRecursiveUpdate(result, dct, merge_dct)

C9_Witness ==
  /\ fn = "merge"
  /\ mpc = "return"
  /\ \E k, j \in Keys :
       /\ k # j
       /\ k \in DOMAIN dct.items /\ k \in DOMAIN merge_dct.items
       /\ dct.items[k].d /\ merge_dct.items[k].d
       /\ j \in DOMAIN dct.items[k].items
       /\ j \notin DOMAIN merge_dct.items[k].items
       /\ k \in DOMAIN dct.items[k].items
       /\ k \in DOMAIN merge_dct.items[k].items
       /\ dct.items[k].items[k] # merge_dct.items[k].items[k]
       /\ result.items[k].items[k] = merge_dct.items[k].items[k]
       /\ result.items[k].items[j] = dct.items[k].items[j]

\* The value of metadata['properties']['attrs'][name], -1 if there is none.
AttrOf(D, name) ==
  IF /\ "properties" \in DOMAIN D.items
     /\ D.items["properties"].d
     /\ "attrs" \in DOMAIN D.items["properties"].items
     /\ D.items["properties"].items["attrs"].d
     /\ name \in DOMAIN D.items["properties"].items["attrs"].items
  THEN D.items["properties"].items["attrs"].items[name].a
  ELSE -1

\* C10: after process_event of the Whisper transcriber with a detected
\* language, attrs.language is the language of the transcript, and after
\* process_document of the Laplacian processor attrs.variance is the
\* variance just computed, whatever the metadata of the received event.
C10_MetadataHoldsComputedValue ==
  /\ (fn = "process_event" /\ mpc = "return" /\ computed # 0)
       => AttrOf(result, "language") = computed
  /\ (fn = "process_document" /\ mpc = "return")
       => AttrOf(result, "variance") = computed

(***************************************************************************)
(* Claims about the PDF converter.                                         *)
(***************************************************************************)

LayoutOf(D) ==
  IF "layout" \in DOMAIN GetAttrs(D).items
  THEN GetAttrs(D).items["layout"]
  ELSE EmptyDict

\* C12: with layout extraction and segmentation type 'page', the event
\* published for page k carries in attrs.layout the table count and the
\* image count of page k (here for the received events without a layout
\* of their own).
C12_LayoutOfOwnPage ==
  (/\ TASK.segmentationType = "page"
   /\ TASK.layoutExtraction
   /\ "layout" \notin DOMAIN GetAttrs(received).items)
    => \A k \in 1..Len(published) :
         LayoutOf(published[k].metadata)
           = Layout(pdf.tables[published[k].page],
                    pdf.images[published[k].page])

\* C13: with layout extraction and segmentation type 'document',
\* get_layout_from_document does not raise, and the event published
\* carries a layout whose counts are the sums of the tables and of the
\* images of the pages.
C13_DocumentLayout ==
  (TASK.segmentationType = "document" /\ TASK.layoutExtraction)
    => /\ pdfpc # "KeyError"
       /\ \A k \in 1..Len(published) :
            \E t, i \in DOMAIN LayoutOf(published[k].metadata).items :
              /\ t # i
              /\ LayoutOf(published[k].metadata).items[t]
                   = Atom(Sum(pdf.tables, 1..pdf.pages))
              /\ LayoutOf(published[k].metadata).items[i]
                   = Atom(Sum(pdf.images, 1..pdf.pages))

(***************************************************************************)
(* Claims about chunk_text.                                                *)
(***************************************************************************)

\* C14: every chunk chunk_text returns has a UTF-8 byte length of at most
\* max_byte_length.
C14_ChunksWithinMax ==
  cpc = "return" =>
    \A i \in 1..Len(chunks) : ByteLength(chunks[i]) <= max_byte_length

(***************************************************************************)
(* Claims about get_keywords.                                              *)
(***************************************************************************)

\* The keywords extracted from some paragraph.
Found == {keywords[i][1] : i \in 1..Len(keywords)}

\* The highest score a keyword obtained in any paragraph.
Best(k) ==
  CHOOSE v \in 1..MaxScore :
    /\ \E i \in 1..Len(keywords) : keywords[i] = <<k, v>>
    /\ \A i \in 1..Len(keywords) : keywords[i][1] = k => keywords[i][2] <= v

\* C15: get_keywords returns at most top_n keywords, none of them twice,
\* each extracted from some paragraph, in the order of non-increasing best
\* score; fewer than top_n keywords have a best score higher than that of
\* a keyword returned.
C15_TopKeywords ==
  kpc = "return" =>
    /\ Len(kresult) <= top_n
    /\ \A i, j \in 1..Len(kresult) : i # j => kresult[i] # kresult[j]
    /\ \A i \in 1..Len(kresult) : kresult[i] \in Found
    /\ \A i, j \in 1..Len(kresult) :
         i < j => Best(kresult[i]) >= Best(kresult[j])
    /\ \A i \in 1..Len(kresult) :
         Cardinality({k \in Found : Best(k) > Best(kresult[i])}) < top_n

C15_Witness ==
  /\ kpc = "return"
  /\ top_n = MaxTopN
  /\ Cardinality(Found) > top_n
  /\ Len(kresult) = top_n
  /\ \E i, j \in 1..Len(keywords) :
       /\ i # j
       /\ keywords[i][1] = keywords[j][1]
       /\ keywords[i][2] # keywords[j][2]
       /\ keywords[i][1] = kresult[1]
  /\ Best(kresult[1]) > Best(kresult[Len(kresult)])

(***************************************************************************)
(* Claims about get_language_code.                                         *)
(***************************************************************************)

\* C16: for a non-empty input code get_language_code returns two
\* lower-case letters, the first two letters of the input in lower case
\* when the input is longer.
C16_TwoLetterCode ==
  (lpc = "return" /\ input_code # <<>>) =>
    /\ Len(language) = 2
    /\ \A i \in 1..Len(language) : language[i] \in {"e", "n"}
    /\ Len(input_code) > 2 => language = SubSeq(lower(input_code), 1, 2)

(***************************************************************************)
(* Claims about the envelope.                                              *)
(***************************************************************************)

\* C17: every event a processor publishes, and every event publish_event
\* returns when no topic is set, has the call stack of the event received
\* with the service name inserted once at the head; so for each event of
\* a fan-out.
C17_ServiceNameOnceAtHead ==
  /\ \A k \in 1..Len(returned) :
       returned[k].callStack = <<SERVICE_NAME>> \o rcvd.callStack
  /\ \A k \in 1..Len(published) :
       published[k].callStack = <<SERVICE_NAME>> \o callStack

\* C18: after on_chunk of the tiling text splitter and after
\* process_document of the video metadata extractor, every entry of
\* properties.attrs of the received event that the processor does not
\* produce is still there with its value.
C18_AttrsOfEarlierStagesKept ==
  processor \in {"tiling", "video"} =>
    \A k \in 1..Len(returned) :
      \A name \in DOMAIN GetAttrs(rcvd.metadata).items
                    \ {"chunk", "audioTracks", "duration"} :
        /\ name \in DOMAIN GetAttrs(returned[k].metadata).items
        /\ GetAttrs(returned[k].metadata).items[name]
             = GetAttrs(rcvd.metadata).items[name]

(***************************************************************************)
(* Claims about the size of the documents.                                 *)
(***************************************************************************)

\* C19: data.document.size of a newly written document is the number of
\* bytes of the payload that was uploaded for it.
C19_SizeIsBytesUploaded ==
  spc = "return" => document.size = document.uploaded

====
